---- MODULE Spec2Model ----
(***************************************************************************)
(* Outage-event aggregation engine of kevinkao/led.                         *)
(*                                                                          *)
(* processOutageEvent (service/dataProcess.service.js) decides for every    *)
(* incoming event whether it joins the cached group, a stored group, or a   *)
(* new group.  The store is MySQL (outages_groups, outages_items), the      *)
(* cache is Redis.  Every await of the service is one step of the model, a  *)
(* prisma.$transaction is one atomic step that commits or rolls back.       *)
(*                                                                          *)
(* Timestamps are seconds counted from a fixed epoch second (TLC integers   *)
(* are 32 bit and the code multiplies by 1000); every comparison of the     *)
(* code is between differences of times, so the offset does not matter.     *)
(***************************************************************************)
EXTENDS Integers, Sequences, FiniteSets, TLC

VARIABLES groups,     \* rows of outages_groups, row i has id i (AUTO_INCREMENT)
          items,      \* rows of outages_items, in insertion order
          cache,      \* Redis: cache key -> entry or NoEntry
          pc,         \* position of each invocation of processOutageEvent, in
                      \* the order in which the requests arrive
          ev,         \* the event each invocation handles
          loc,        \* the local variables of each invocation
          res,        \* what each invocation returned or threw
          nFailed,    \* store/cache calls that failed so far
          pre,        \* store and cache as they were when the running invocation started
          rangeIn,    \* inputs of the merge-window test under examination
          rangeOut,   \* its results
          request,    \* the HTTP request under examination
          response    \* what the route did with it: responses sent, next() called

vars == <<groups, items, cache, pc, ev, loc, res, nFailed, pre,
          rangeIn, rangeOut, request, response>>

(***************************************************************************)
(* Bounds of the model.                                                     *)
(***************************************************************************)
MaxSlot == 1
MaxEvents == 3
MaxConcurrent == 2
MaxFailures == 1

(***************************************************************************)
(* Program constants.                                                       *)
(***************************************************************************)
sixtyMinutesInMs == 60 * 60 * 1000
DefaultTtl == 3600
ALLOWED_EVENT_TYPES == {"panel_outage", "temperature_outage", "led_outage"}

W == sixtyMinutesInMs \div 1000

Controllers == {"AOT1D-25090001", "AOT1D-25090002"}
EventTypes == ALLOWED_EVENT_TYPES

\* The (controller, event type) pairs of the events the model sends: two
\* types of one controller and one type of another when requests come one at
\* a time, two of them when requests overlap.
Keys == {<<"AOT1D-25090001", "led_outage">>, <<"AOT1D-25090001", "panel_outage">>,
         <<"AOT1D-25090002", "led_outage">>}
KeysConcurrent == {<<"AOT1D-25090001", "led_outage">>, <<"AOT1D-25090002", "led_outage">>}
Procs == 1..MaxEvents

\* Event timestamps (seconds): slots one window apart, each with the second
\* after it, so that gaps of W - 1, W and W + 1 seconds all occur.
Times == {2 * W + k * W + j : k \in 0..MaxSlot, j \in 0..1}

(***************************************************************************)
(* JavaScript values.  A value that crosses JSON or the SQL driver changes  *)
(* its representation; the tag records which one it has.                    *)
(***************************************************************************)
Null == [kind |-> "null"]
Undefined == [kind |-> "undefined"]
NumberId(n) == [kind |-> "number", val |-> n]
BigIntId(n) == [kind |-> "bigint", val |-> n]
DateOf(ms) == [kind |-> "date", ms |-> ms]

\* id.toString()
IdToString(id) == [kind |-> "string", val |-> id.val]

\* Date.prototype.toJSON: the ISO string of a Date; a string stays a string
ToISOString(d) == IF d.kind = "date" THEN [kind |-> "iso", ms |-> d.ms] ELSE d

\* new Date(x).getTime() for a Date or an ISO string
DateGetTime(d) == d.ms

\* new Date(seconds * 1000)
NewDateFromSeconds(s) == DateOf(s * 1000)

\* MySQL's coercion of an id parameter to BIGINT
SqlId(id) == id.val

\* truthiness of an object field
Truthy(v) == v # Null /\ v # Undefined

(***************************************************************************)
(* Cache adapter.                                                           *)
(***************************************************************************)
generateCacheKey(controllerId, eventType) == <<"outage_group", controllerId, eventType>>

\* what a caller of processOutageEvent that skipped the route's validation
\* may pass as event_type
AnyEventTypes == ALLOWED_EVENT_TYPES \cup {"fan_outage"}
KeysDirect == {<<"AOT1D-25090001", "led_outage">>, <<"AOT1D-25090001", "fan_outage">>}

\* controller ids as requests may spell them: validation takes any
\* non-blank string as it comes
AnyControllers == Controllers \cup {"aot1d-25090001"}
KeysSpelled == {<<"AOT1D-25090001", "led_outage">>, <<"aot1d-25090001", "led_outage">>}

CacheKeys == {generateCacheKey(c, e) : c \in AnyControllers, e \in AnyEventTypes}

NoEntry == [kind |-> "nil"]

\* JSON.stringify(groupWithStringId), the value setEx stores
StringifyGroup(group) ==
    [group EXCEPT !.id = IdToString(group.id),
                  !.start_time = ToISOString(group.start_time),
                  !.end_time = ToISOString(group.end_time)]

\* the entry setCachedGroup writes: redis.setEx(cacheKey, ttl, json)
setCachedGroup(group, ttl) == [kind |-> "entry", ttl |-> ttl, value |-> StringifyGroup(group)]

\* getCachedGroup: null when the key is absent, JSON.parse(cached) otherwise
getCachedGroup(controllerId, eventType) ==
    LET cached == cache[generateCacheKey(controllerId, eventType)]
    IN  IF cached.kind = "nil" THEN Null ELSE cached.value

(***************************************************************************)
(* Merge window.                                                            *)
(***************************************************************************)
isEventInTimeRangeStrict(group, timestamp) ==
    LET eventTime == timestamp * 1000
        rangeStart == DateGetTime(group.start_time) - sixtyMinutesInMs
        rangeEnd == DateGetTime(group.end_time) + sixtyMinutesInMs
    IN  eventTime > rangeStart /\ eventTime < rangeEnd

isEventInTimeRange(group, timestamp) ==
    LET eventTime == timestamp * 1000
        startTime == DateGetTime(group.start_time)
        endTime == DateGetTime(group.end_time)
        rangeStart == startTime - sixtyMinutesInMs
        rangeEnd == endTime + sixtyMinutesInMs
    IN  eventTime >= rangeStart /\ eventTime <= rangeEnd

(***************************************************************************)
(* Group Store.  A store state is db = [groups, items]; every repository    *)
(* call returns [ok, err, db, ret]: whether it succeeded, the error thrown, *)
(* the store as the running transaction sees it afterwards, and the value   *)
(* returned.                                                                *)
(***************************************************************************)
Store == [groups |-> groups, items |-> items]

\* COLLATE utf8mb4_unicode_ci, the collation of the columns of both tables:
\* the weight of a string, equal for strings that differ in the case of
\* their letters only (on the strings of the model)
utf8mb4_unicode_ci(str) == IF str = "aot1d-25090001" THEN "AOT1D-25090001" ELSE str

\* err names the call that failed: "StoreError:<call>" for a failure of the
\* store itself, "DuplicateEntry" for the unique index of outages_items
Thrown(db, err) == [ok |-> FALSE, err |-> err, db |-> db, ret |-> Null]
Returned(db, ret) == [ok |-> TRUE, err |-> "", db |-> db, ret |-> ret]

\* a row of outages_groups as $queryRaw returns it (BIGINT id, DATETIME columns)
RowToObject(row) ==
    [id |-> BigIntId(row.id),
     event_type |-> row.event_type,
     controller_id |-> row.controller_id,
     start_time |-> DateOf(row.start_time),
     end_time |-> DateOf(row.end_time)]

\* the WHERE clause without its controller_id condition
MatchingRowsAnyController(rows, controllerId, eventType, timestamp) ==
    LET eventTime == DateGetTime(NewDateFromSeconds(timestamp))
    IN  {i \in 1..Len(rows) :
            /\ rows[i].event_type = eventType
            /\ rows[i].start_time <= eventTime + 60 * 60 * 1000
            /\ rows[i].end_time >= eventTime - 60 * 60 * 1000}

\* the WHERE clause of findByControllerAndEventType
MatchingRows(rows, controllerId, eventType, timestamp) ==
    LET eventTime == DateGetTime(NewDateFromSeconds(timestamp))
        startRange == eventTime - 60 * 60 * 1000
        endRange == eventTime + 60 * 60 * 1000
    IN  {i \in 1..Len(rows) :
            /\ utf8mb4_unicode_ci(rows[i].controller_id) = utf8mb4_unicode_ci(controllerId)
            /\ utf8mb4_unicode_ci(rows[i].event_type) = utf8mb4_unicode_ci(eventType)
            /\ rows[i].start_time <= endRange
            /\ rows[i].end_time >= startRange}

findByControllerAndEventTypeStrict(rows, controllerId, eventType, timestamp) ==
    LET eventTime == DateGetTime(NewDateFromSeconds(timestamp))
        m == {i \in 1..Len(rows) :
                /\ rows[i].controller_id = controllerId
                /\ rows[i].event_type = eventType
                /\ rows[i].start_time < eventTime + 60 * 60 * 1000
                /\ rows[i].end_time > eventTime - 60 * 60 * 1000}
        top == {i \in m : \A j \in m : rows[j].end_time <= rows[i].end_time}
    IN  IF m = {} THEN {Null} ELSE {RowToObject(rows[i]) : i \in top}

\* the query with ORDER BY end_time ASC: the group that ended first
findByControllerAndEventTypeOldest(rows, controllerId, eventType, timestamp) ==
    LET m == MatchingRows(rows, controllerId, eventType, timestamp)
        top == {i \in m : \A j \in m : rows[j].end_time >= rows[i].end_time}
    IN  IF m = {} THEN {Null} ELSE {RowToObject(rows[i]) : i \in top}

\* ORDER BY end_time DESC LIMIT 1: the possible results (rows that tie on
\* end_time come in an order MySQL does not fix); {Null} when nothing matches
findByControllerAndEventType(rows, controllerId, eventType, timestamp) ==
    LET m == MatchingRows(rows, controllerId, eventType, timestamp)
        top == {i \in m : \A j \in m : rows[j].end_time <= rows[i].end_time}
    IN  IF m = {} THEN {Null} ELSE {RowToObject(rows[i]) : i \in top}

\* outageGroupRepo.createWithTx: INSERT INTO outages_groups, LAST_INSERT_ID()
outageGroupRepo_createWithTx(db, eventType, controllerId, startTime, endTime, fail) ==
    LET startDate == NewDateFromSeconds(startTime)
        endDate == NewDateFromSeconds(endTime)
        groupId == Len(db.groups) + 1
        row == [id |-> groupId, event_type |-> eventType, controller_id |-> controllerId,
                start_time |-> DateGetTime(startDate), end_time |-> DateGetTime(endDate)]
    IN  IF fail THEN Thrown(db, "StoreError:group")
        ELSE Returned([db EXCEPT !.groups = Append(@, row)],
                      [id |-> NumberId(groupId), event_type |-> eventType,
                       controller_id |-> controllerId,
                       start_time |-> startDate, end_time |-> endDate])

\* the index declared INDEX instead of UNIQUE INDEX: it rejects nothing
idx_group_id_occurrence_time_NonUnique(rows, row) == FALSE

\* UNIQUE INDEX idx_group_id_occurrence_time(group_id, occurrence_time):
\* whether inserting row would break it
idx_group_id_occurrence_time(rows, row) ==
    \E i \in 1..Len(rows) :
        /\ rows[i].group_id = row.group_id
        /\ rows[i].occurrence_time = row.occurrence_time

\* outageItemRepo.createWithTx: INSERT INTO outages_items, rejected by the
\* unique index idx_group_id_occurrence_time when (group_id, occurrence_time)
\* is already there
outageItemRepo_createWithTx(db, groupId, occurrenceTime, fail) ==
    LET occurrenceDate == NewDateFromSeconds(occurrenceTime)
        row == [id |-> Len(db.items) + 1, group_id |-> SqlId(groupId),
                occurrence_time |-> DateGetTime(occurrenceDate)]
        duplicate == idx_group_id_occurrence_time(db.items, row)
    IN  IF fail THEN Thrown(db, "StoreError:item")
        ELSE IF duplicate THEN Thrown(db, "DuplicateEntry")
        ELSE Returned([db EXCEPT !.items = Append(@, row)],
                      [id |-> NumberId(row.id), group_id |-> groupId,
                       occurrence_time |-> occurrenceDate])

\* REPLACE INTO outages_groups (id, end_time) instead of the UPDATE: the row
\* is deleted and inserted again with only these two columns set
updateEndTimeWithTxReplace(db, groupId, endTime, fail) ==
    LET endDate == NewDateFromSeconds(endTime)
        id == SqlId(groupId)
    IN  IF fail THEN Thrown(db, "StoreError:update")
        ELSE Returned([db EXCEPT !.groups =
                          [i \in 1..Len(@) |->
                              IF @[i].id = id
                              THEN [id |-> id, event_type |-> "", controller_id |-> "",
                                    start_time |-> DateGetTime(endDate),
                                    end_time |-> DateGetTime(endDate)]
                              ELSE @[i]]],
                      [id |-> groupId, event_type |-> Undefined, controller_id |-> Undefined,
                       start_time |-> Undefined, end_time |-> endDate])

\* UPDATE outages_groups SET end_time = ? WHERE id = ?; returns {id, end_time}
updateEndTimeWithTx(db, groupId, endTime, fail) ==
    LET endDate == NewDateFromSeconds(endTime)
        id == SqlId(groupId)
    IN  IF fail THEN Thrown(db, "StoreError:update")
        ELSE Returned([db EXCEPT !.groups =
                          [i \in 1..Len(@) |->
                              IF @[i].id = id
                              THEN [@[i] EXCEPT !.end_time = DateGetTime(endDate)]
                              ELSE @[i]]],
                      [id |-> groupId, event_type |-> Undefined, controller_id |-> Undefined,
                       start_time |-> Undefined, end_time |-> endDate])

\* UPDATE outages_groups SET start_time = ? WHERE id = ?; returns {id, start_time}
updateStartTimeWithTx(db, groupId, startTime, fail) ==
    LET startDate == NewDateFromSeconds(startTime)
        id == SqlId(groupId)
    IN  IF fail THEN Thrown(db, "StoreError:update")
        ELSE Returned([db EXCEPT !.groups =
                          [i \in 1..Len(@) |->
                              IF @[i].id = id
                              THEN [@[i] EXCEPT !.start_time = DateGetTime(startDate)]
                              ELSE @[i]]],
                      [id |-> groupId, event_type |-> Undefined, controller_id |-> Undefined,
                       start_time |-> startDate, end_time |-> Undefined])

\* prisma.$transaction(callback) without the rollback: what the callback
\* wrote before it threw stays in the store
prisma_transaction_NoRollback(db, out) == out

\* prisma.$transaction(callback): commits what the callback wrote when it
\* returns, restores the store and rethrows when it throws
prisma_transaction(db, out) == IF out.ok THEN out ELSE [out EXCEPT !.db = db]

(***************************************************************************)
(* Aggregation Engine: the two transactions and the cache refresh.          *)
(* f names the repository call that the store fails ("none": no failure).   *)
(***************************************************************************)
\* createNewGroup, the callback of prisma.$transaction
createNewGroupTx(db, controllerId, eventType, timestamp, f) ==
    LET group == outageGroupRepo_createWithTx(db, eventType, controllerId,
                                              timestamp, timestamp, f = "group")
    IN  IF ~group.ok THEN group
        ELSE LET item == outageItemRepo_createWithTx(group.db, group.ret.id,
                                                     timestamp, f = "item")
             IN  IF ~item.ok THEN item ELSE Returned(item.db, group.ret)

\* addEventToGroup with the comparison against start_time left out: the
\* boundary only ever moves forward
addEventToGroupTxEndOnly(db, group, timestamp, f) ==
    LET item == outageItemRepo_createWithTx(db, group.id, timestamp, f = "item")
        eventTime == timestamp * 1000
        groupEndTime == DateGetTime(group.end_time)
    IN  IF ~item.ok THEN item
        ELSE IF eventTime > groupEndTime
             THEN updateEndTimeWithTx(item.db, group.id, timestamp, f = "update")
             ELSE Returned(item.db, group)

\* addEventToGroup with the two updates exchanged: an earlier event moves
\* end_time, a later one start_time
addEventToGroupTxSwapped(db, group, timestamp, f) ==
    LET item == outageItemRepo_createWithTx(db, group.id, timestamp, f = "item")
        eventTime == timestamp * 1000
        groupStartTime == DateGetTime(group.start_time)
        groupEndTime == DateGetTime(group.end_time)
    IN  IF ~item.ok THEN item
        ELSE IF eventTime < groupStartTime
             THEN updateEndTimeWithTx(item.db, group.id, timestamp, f = "update")
        ELSE IF eventTime > groupEndTime
             THEN updateStartTimeWithTx(item.db, group.id, timestamp, f = "update")
        ELSE Returned(item.db, group)

\* addEventToGroup without its last branch: an event that is not before
\* start_time always rewrites end_time
addEventToGroupTxAlwaysUpdate(db, group, timestamp, f) ==
    LET item == outageItemRepo_createWithTx(db, group.id, timestamp, f = "item")
        eventTime == timestamp * 1000
        groupStartTime == DateGetTime(group.start_time)
    IN  IF ~item.ok THEN item
        ELSE IF eventTime < groupStartTime
             THEN updateStartTimeWithTx(item.db, group.id, timestamp, f = "update")
        ELSE updateEndTimeWithTx(item.db, group.id, timestamp, f = "update")

\* addEventToGroup, the callback of prisma.$transaction
addEventToGroupTx(db, group, timestamp, f) ==
    LET item == outageItemRepo_createWithTx(db, group.id, timestamp, f = "item")
        eventTime == timestamp * 1000
        groupStartTime == DateGetTime(group.start_time)
        groupEndTime == DateGetTime(group.end_time)
    IN  IF ~item.ok THEN item
        ELSE IF eventTime < groupStartTime
             THEN updateStartTimeWithTx(item.db, group.id, timestamp, f = "update")
        ELSE IF eventTime > groupEndTime
             THEN updateEndTimeWithTx(item.db, group.id, timestamp, f = "update")
        ELSE Returned(item.db, group)

\* the snapshot cached as it was given, without the fields of updatedGroup
groupToCacheSnapshotOnly(group, updatedGroup) == group

\* addEventToGroup: {...group, start_time and end_time of updatedGroup when set}
groupToCache(group, updatedGroup) ==
    [group EXCEPT
        !.start_time = IF Truthy(updatedGroup.start_time)
                       THEN updatedGroup.start_time ELSE @,
        !.end_time = IF Truthy(updatedGroup.end_time)
                     THEN updatedGroup.end_time ELSE @]

(***************************************************************************)
(* Invocations of processOutageEvent.                                       *)
(***************************************************************************)
InFlight == {"getCached", "findMatching", "addCached", "addDb", "create",
             "cacheCached", "cacheDb", "cacheCreated"}

NoLocals == [cachedGroup |-> Undefined, dbGroup |-> Undefined, group |-> Undefined,
             updated |-> Undefined, probed |-> FALSE, ntx |-> 0, ncommit |-> 0,
             ncache |-> 0, fault |-> "none"]
NoEvent == [controller_id |-> "", event_type |-> "", timestamp |-> 0]
NoResult == [kind |-> "none"]
NoPre == [kind |-> "none"]

Ok(action, groupId) ==
    [kind |-> "ok", success |-> TRUE, action |-> action, group_id |-> groupId]
Error(err) == [kind |-> "error", err |-> err]

Finish(p, r) ==
    /\ pc' = [pc EXCEPT ![p] = IF r.kind = "ok" THEN "done" ELSE "error"]
    /\ res' = [res EXCEPT ![p] = r]

InitEngine ==
    /\ groups = <<>>
    /\ items = <<>>
    /\ cache = [k \in CacheKeys |-> NoEntry]
    /\ pc = [p \in Procs |-> "idle"]
    /\ ev = [p \in Procs |-> NoEvent]
    /\ loc = [p \in Procs |-> NoLocals]
    /\ res = [p \in Procs |-> NoResult]
    /\ nFailed = 0
    /\ pre = NoPre
    /\ rangeOut = <<>>

NoRequest == [route |-> "none"]

Init == InitEngine /\ rangeIn = <<>> /\ request = NoRequest /\ response = <<>>

\* the handler calls processOutageEvent({controller_id, event_type, timestamp})
Begin(p, c, e, t) ==
    /\ pc[p] = "idle"
    /\ \A q \in Procs : q < p => pc[q] # "idle"
    /\ pc' = [pc EXCEPT ![p] = "getCached"]
    /\ ev' = [ev EXCEPT ![p] = [controller_id |-> c, event_type |-> e, timestamp |-> t]]
    /\ UNCHANGED <<groups, items, cache, loc, res, nFailed, rangeIn, rangeOut, request, response>>

Running == {p \in Procs : pc[p] \in InFlight}

Start(p) ==
    /\ Cardinality(Running) < MaxConcurrent
    /\ \E k \in KeysConcurrent, t \in Times : Begin(p, k[1], k[2], t)
    /\ UNCHANGED pre

\* Step 1 without the test of the window: any cached group is merged into
GetCachedNoRangeCheck(p) ==
    /\ pc[p] = "getCached"
    /\ LET cachedGroup == getCachedGroup(ev[p].controller_id, ev[p].event_type)
           hit == Truthy(cachedGroup)
       IN  /\ loc' = [loc EXCEPT ![p].cachedGroup = cachedGroup,
                                 ![p].group = IF hit THEN cachedGroup ELSE @]
           /\ pc' = [pc EXCEPT ![p] = IF hit THEN "addCached" ELSE "findMatching"]
    /\ UNCHANGED <<groups, items, cache, ev, res, nFailed, pre,
                   rangeIn, rangeOut, request, response>>

\* Step 1 behind a lock on the key: it waits while another invocation of
\* the same controller and event type is under way
GetCachedAfterOthers(p) ==
    /\ pc[p] = "getCached"
    /\ ~\E q \in Procs : /\ q # p /\ pc[q] \in InFlight \ {"getCached"}
                          /\ ev[q].controller_id = ev[p].controller_id
                          /\ ev[q].event_type = ev[p].event_type
    /\ LET cachedGroup == getCachedGroup(ev[p].controller_id, ev[p].event_type)
           hit == Truthy(cachedGroup) /\ isEventInTimeRange(cachedGroup, ev[p].timestamp)
       IN  /\ loc' = [loc EXCEPT ![p].cachedGroup = cachedGroup,
                                 ![p].group = IF hit THEN cachedGroup ELSE @]
           /\ pc' = [pc EXCEPT ![p] = IF hit THEN "addCached" ELSE "findMatching"]
    /\ UNCHANGED <<groups, items, cache, ev, res, nFailed, pre,
                   rangeIn, rangeOut, request, response>>

\* Step 1: getCachedGroup, then the test of the cached group's window
GetCached(p) ==
    /\ pc[p] = "getCached"
    /\ LET cachedGroup == getCachedGroup(ev[p].controller_id, ev[p].event_type)
           hit == Truthy(cachedGroup) /\ isEventInTimeRange(cachedGroup, ev[p].timestamp)
       IN  /\ loc' = [loc EXCEPT ![p].cachedGroup = cachedGroup,
                                 ![p].group = IF hit THEN cachedGroup ELSE @]
           /\ pc' = [pc EXCEPT ![p] = IF hit THEN "addCached" ELSE "findMatching"]
    /\ UNCHANGED <<groups, items, cache, ev, res, nFailed, pre,
                   rangeIn, rangeOut, request, response>>

\* redis.get (or JSON.parse) throws: nothing catches it
GetCachedFail(p) ==
    /\ pc[p] = "getCached"
    /\ nFailed < MaxFailures
    /\ nFailed' = nFailed + 1
    /\ Finish(p, Error("CacheReadError"))
    /\ UNCHANGED <<groups, items, cache, ev, loc, pre, rangeIn, rangeOut, request, response>>

\* Step 2: findMatchingGroup
FindMatching(p) ==
    /\ pc[p] = "findMatching"
    /\ \E dbGroup \in findByControllerAndEventType(groups, ev[p].controller_id,
                                                   ev[p].event_type, ev[p].timestamp) :
          /\ loc' = [loc EXCEPT ![p].dbGroup = dbGroup, ![p].probed = TRUE,
                                ![p].group = IF Truthy(dbGroup) THEN dbGroup ELSE @]
          /\ pc' = [pc EXCEPT ![p] = IF Truthy(dbGroup) THEN "addDb" ELSE "create"]
    /\ UNCHANGED <<groups, items, cache, ev, res, nFailed, pre,
                   rangeIn, rangeOut, request, response>>

\* a failure of the store probe taken for "no group found"
FindMatchingFailSwallowed(p) ==
    /\ pc[p] = "findMatching"
    /\ nFailed < MaxFailures
    /\ nFailed' = nFailed + 1
    /\ loc' = [loc EXCEPT ![p].dbGroup = Null, ![p].probed = TRUE]
    /\ pc' = [pc EXCEPT ![p] = "create"]
    /\ UNCHANGED <<groups, items, cache, ev, res, pre, rangeIn, rangeOut, request, response>>

\* the query of the store probe rejects: nothing catches it
FindMatchingFail(p) ==
    /\ pc[p] = "findMatching"
    /\ nFailed < MaxFailures
    /\ nFailed' = nFailed + 1
    /\ loc' = [loc EXCEPT ![p].probed = TRUE]
    /\ Finish(p, Error("StoreError:find"))
    /\ UNCHANGED <<groups, items, cache, ev, pre, rangeIn, rangeOut, request, response>>

\* the store transaction of an invocation: commit, or roll back and rethrow;
\* f is the repository call that was made to misbehave during it
RunTransaction(p, f, out, next) ==
    /\ groups' = out.db.groups
    /\ items' = out.db.items
    /\ IF out.ok
       THEN /\ loc' = [loc EXCEPT ![p].updated = out.ret, ![p].ntx = @ + 1,
                                  ![p].ncommit = @ + 1, ![p].fault = f]
            /\ pc' = [pc EXCEPT ![p] = next]
            /\ UNCHANGED res
       ELSE /\ loc' = [loc EXCEPT ![p].ntx = @ + 1, ![p].fault = f]
            /\ Finish(p, Error(out.err))

\* addEventToGroup(cachedGroup | dbGroup, timestamp): the transaction
AddEvent(p, f) ==
    /\ pc[p] \in {"addCached", "addDb"}
    /\ RunTransaction(p, f,
           prisma_transaction(Store, addEventToGroupTx(Store, loc[p].group,
                                                       ev[p].timestamp, f)),
           IF pc[p] = "addCached" THEN "cacheCached" ELSE "cacheDb")
    /\ UNCHANGED <<cache, ev, pre, rangeIn, rangeOut, request, response>>

AddEventToGroup(p) == AddEvent(p, "none") /\ UNCHANGED nFailed

AddEventToGroupFail(p) ==
    /\ nFailed < MaxFailures
    /\ nFailed' = nFailed + 1
    /\ \E f \in {"item", "update"} : AddEvent(p, f) /\ pc'[p] = "error"

\* a merge during which the store would answer null to a read of the
\* group's last item (findLastItemByGroupId): addEventToGroup makes no such
\* read, so the merge goes on as if nothing had happened
AddEventToGroupNoLastItem(p) ==
    /\ nFailed < MaxFailures
    /\ nFailed' = nFailed + 1
    /\ AddEvent(p, "lastItem")

\* createNewGroup with the cache written inside the transaction callback,
\* right after the group row is inserted and before the commit
CreateCachingInside(p, f) ==
    /\ pc[p] = "create"
    /\ LET group == outageGroupRepo_createWithTx(Store, ev[p].event_type,
                                                 ev[p].controller_id, ev[p].timestamp,
                                                 ev[p].timestamp, f = "group")
       IN  cache' = IF group.ok
                    THEN [cache EXCEPT ![generateCacheKey(ev[p].controller_id,
                                                          ev[p].event_type)] =
                                           setCachedGroup(group.ret, DefaultTtl)]
                    ELSE cache
    /\ RunTransaction(p, f,
           prisma_transaction(Store, createNewGroupTx(Store, ev[p].controller_id,
                                                      ev[p].event_type,
                                                      ev[p].timestamp, f)),
           "cacheCreated")
    /\ UNCHANGED <<ev, pre, rangeIn, rangeOut, request, response>>

\* Step 3: createNewGroup(controller_id, event_type, timestamp): the transaction
Create(p, f) ==
    /\ pc[p] = "create"
    /\ RunTransaction(p, f,
           prisma_transaction(Store, createNewGroupTx(Store, ev[p].controller_id,
                                                      ev[p].event_type,
                                                      ev[p].timestamp, f)),
           "cacheCreated")
    /\ UNCHANGED <<cache, ev, pre, rangeIn, rangeOut, request, response>>

CreateNewGroup(p) == Create(p, "none") /\ UNCHANGED nFailed

CreateNewGroupFail(p) ==
    /\ nFailed < MaxFailures
    /\ nFailed' = nFailed + 1
    /\ \E f \in {"group", "item"} : Create(p, f) /\ pc'[p] = "error"

\* what the invocation is about to cache and under which key
CacheKeyOf(p) ==
    IF pc[p] = "cacheCreated"
    THEN generateCacheKey(ev[p].controller_id, ev[p].event_type)
    ELSE generateCacheKey(loc[p].group.controller_id, loc[p].group.event_type)

CacheValueOf(p) ==
    IF pc[p] = "cacheCreated" THEN loc[p].updated
    ELSE groupToCache(loc[p].group, loc[p].updated)

\* what processOutageEvent returns once the cache is written
ResultOf(p) ==
    IF pc[p] = "cacheCached" THEN Ok("added_to_cached_group", loc[p].cachedGroup.id)
    ELSE IF pc[p] = "cacheDb" THEN Ok("added_to_db_group", loc[p].dbGroup.id)
    ELSE Ok("created_new_group", loc[p].updated.id)

\* the cache written with a TTL of 3600 milliseconds' worth of seconds
SetCacheShortTtl(p) ==
    /\ pc[p] \in {"cacheCached", "cacheDb", "cacheCreated"}
    /\ cache' = [cache EXCEPT ![CacheKeyOf(p)] =
                     setCachedGroup(CacheValueOf(p), DefaultTtl \div 1000)]
    /\ loc' = [loc EXCEPT ![p].ncache = @ + 1]
    /\ Finish(p, ResultOf(p))
    /\ UNCHANGED <<groups, items, ev, nFailed, pre, rangeIn, rangeOut, request, response>>

\* a cache write whose failure is swallowed: the invocation returns success
SetCacheFailSwallowed(p) ==
    /\ pc[p] \in {"cacheCached", "cacheDb", "cacheCreated"}
    /\ nFailed < MaxFailures
    /\ nFailed' = nFailed + 1
    /\ loc' = [loc EXCEPT ![p].ncache = @ + 1]
    /\ Finish(p, ResultOf(p))
    /\ UNCHANGED <<groups, items, cache, ev, pre, rangeIn, rangeOut, request, response>>

\* setCachedGroup after the commit, then the return of processOutageEvent
SetCache(p) ==
    /\ pc[p] \in {"cacheCached", "cacheDb", "cacheCreated"}
    /\ cache' = [cache EXCEPT ![CacheKeyOf(p)] = setCachedGroup(CacheValueOf(p), DefaultTtl)]
    /\ loc' = [loc EXCEPT ![p].ncache = @ + 1]
    /\ Finish(p, ResultOf(p))
    /\ UNCHANGED <<groups, items, ev, nFailed, pre, rangeIn, rangeOut, request, response>>

\* redis.setEx throws after the commit: the error reaches the caller
SetCacheFail(p) ==
    /\ pc[p] \in {"cacheCached", "cacheDb", "cacheCreated"}
    /\ nFailed < MaxFailures
    /\ nFailed' = nFailed + 1
    /\ loc' = [loc EXCEPT ![p].ncache = @ + 1]
    /\ Finish(p, Error("CacheWriteError"))
    /\ UNCHANGED <<groups, items, cache, ev, pre, rangeIn, rangeOut, request, response>>

\* Redis drops an entry whose TTL ran out
Expire(k) ==
    /\ cache[k] # NoEntry
    /\ cache' = [cache EXCEPT ![k] = NoEntry]
    /\ UNCHANGED <<groups, items, pc, ev, loc, res, nFailed, pre,
                   rangeIn, rangeOut, request, response>>

Next ==
    \/ \E p \in Procs : Start(p)
    \/ \E p \in Procs : GetCached(p)
    \/ \E p \in Procs : GetCachedFail(p)
    \/ \E p \in Procs : FindMatching(p)
    \/ \E p \in Procs : FindMatchingFail(p)
    \/ \E p \in Procs : AddEventToGroup(p)
    \/ \E p \in Procs : AddEventToGroupFail(p)
    \/ \E p \in Procs : AddEventToGroupNoLastItem(p)
    \/ \E p \in Procs : CreateNewGroup(p)
    \/ \E p \in Procs : CreateNewGroupFail(p)
    \/ \E p \in Procs : SetCache(p)
    \/ \E p \in Procs : SetCacheFail(p)
    \/ \E k \in CacheKeys : Expire(k)

Spec == Init /\ [][Next]_vars

(***************************************************************************)
(* Requests handled one at a time, no store or cache call failing; cache    *)
(* entries still expire at any moment.                                      *)
(***************************************************************************)
StartSeq(p) ==
    /\ Running = {}
    /\ \E k \in Keys, t \in Times : Begin(p, k[1], k[2], t)
    /\ pre' = [groups |-> groups, items |-> items, cache |-> cache]

NextSeq ==
    \/ \E p \in Procs : StartSeq(p)
    \/ \E p \in Procs : GetCached(p)
    \/ \E p \in Procs : FindMatching(p)
    \/ \E p \in Procs : AddEventToGroup(p)
    \/ \E p \in Procs : CreateNewGroup(p)
    \/ \E p \in Procs : SetCache(p)
    \/ \E k \in CacheKeys : Expire(k)

SpecSeq == Init /\ [][NextSeq]_vars

(***************************************************************************)
(* Requests one at a time, nothing failing, for one controller whose id the  *)
(* requests spell in two ways.                                               *)
(***************************************************************************)
StartSpelled(p) ==
    /\ Running = {}
    /\ \E k \in KeysSpelled, t \in Times : Begin(p, k[1], k[2], t)
    /\ pre' = [groups |-> groups, items |-> items, cache |-> cache]

NextSpelled ==
    \/ \E p \in Procs : StartSpelled(p)
    \/ \E p \in Procs : GetCached(p)
    \/ \E p \in Procs : FindMatching(p)
    \/ \E p \in Procs : AddEventToGroup(p)
    \/ \E p \in Procs : CreateNewGroup(p)
    \/ \E p \in Procs : SetCache(p)
    \/ \E k \in CacheKeys : Expire(k)

SpecSpelled == Init /\ [][NextSpelled]_vars

(***************************************************************************)
(* Requests one at a time, nothing failing, for one key whose first event    *)
(* has been processed already; among the events that follow is one of the   *)
(* second before it.                                                        *)
(***************************************************************************)
KeyLate == <<"AOT1D-25090001", "led_outage">>
TimesLate == Times \cup {2 * W - 1}

\* the store and the cache as createNewGroup leaves them for the first
\* event (KeyLate, 2 * W)
InitLate ==
    LET empty == [groups |-> <<>>, items |-> <<>>]
        out == prisma_transaction(empty, createNewGroupTx(empty, KeyLate[1], KeyLate[2],
                                                          2 * W, "none"))
    IN  /\ groups = out.db.groups
        /\ items = out.db.items
        /\ cache = [k \in CacheKeys |->
                       IF k = generateCacheKey(KeyLate[1], KeyLate[2])
                       THEN setCachedGroup(out.ret, DefaultTtl) ELSE NoEntry]
        /\ pc = [p \in Procs |-> "idle"]
        /\ ev = [p \in Procs |-> NoEvent]
        /\ loc = [p \in Procs |-> NoLocals]
        /\ res = [p \in Procs |-> NoResult]
        /\ nFailed = 0
        /\ pre = NoPre
        /\ rangeIn = <<>> /\ rangeOut = <<>>
        /\ request = NoRequest /\ response = <<>>

StartLate(p) ==
    /\ Running = {}
    /\ \E t \in TimesLate : Begin(p, KeyLate[1], KeyLate[2], t)
    /\ pre' = [groups |-> groups, items |-> items, cache |-> cache]

NextLate ==
    \/ \E p \in Procs : StartLate(p)
    \/ \E p \in Procs : GetCached(p)
    \/ \E p \in Procs : FindMatching(p)
    \/ \E p \in Procs : AddEventToGroup(p)
    \/ \E p \in Procs : CreateNewGroup(p)
    \/ \E p \in Procs : SetCache(p)
    \/ \E k \in CacheKeys : Expire(k)

SpecLate == InitLate /\ [][NextLate]_vars

(***************************************************************************)
(* Overlapping requests for one key, calls that may fail, and every call     *)
(* answering in the end.                                                     *)
(***************************************************************************)
StartFair(p) ==
    /\ Cardinality(Running) < MaxConcurrent
    /\ \E t \in Times : Begin(p, KeyLate[1], KeyLate[2], t)
    /\ UNCHANGED pre

NextFair ==
    \/ \E p \in Procs : StartFair(p)
    \/ \E p \in Procs : GetCached(p)
    \/ \E p \in Procs : GetCachedFail(p)
    \/ \E p \in Procs : FindMatching(p)
    \/ \E p \in Procs : FindMatchingFail(p)
    \/ \E p \in Procs : AddEventToGroup(p)
    \/ \E p \in Procs : AddEventToGroupFail(p)
    \/ \E p \in Procs : AddEventToGroupNoLastItem(p)
    \/ \E p \in Procs : CreateNewGroup(p)
    \/ \E p \in Procs : CreateNewGroupFail(p)
    \/ \E p \in Procs : SetCache(p)
    \/ \E p \in Procs : SetCacheFail(p)
    \/ \E k \in CacheKeys : Expire(k)

\* the calls of invocation p that answer without failing: each await of
\* processOutageEvent resolves
Step(p) ==
    \/ GetCached(p)
    \/ FindMatching(p)
    \/ AddEventToGroup(p)
    \/ CreateNewGroup(p)
    \/ SetCache(p)

\* every cache and store call eventually returns or fails
SpecFair == Init /\ [][NextFair]_vars /\ \A p \in Procs : WF_vars(Step(p))

(***************************************************************************)
(* processOutageEvent called directly (it is exported by the service), one  *)
(* call at a time, with an event_type the route's validation never saw.     *)
(***************************************************************************)
StartDirect(p) ==
    /\ Running = {}
    /\ \E k \in KeysDirect, t \in Times : Begin(p, k[1], k[2], t)
    /\ pre' = [groups |-> groups, items |-> items, cache |-> cache]

NextDirect ==
    \/ \E p \in Procs : StartDirect(p)
    \/ \E p \in Procs : GetCached(p)
    \/ \E p \in Procs : FindMatching(p)
    \/ \E p \in Procs : AddEventToGroup(p)
    \/ \E p \in Procs : CreateNewGroup(p)
    \/ \E p \in Procs : SetCache(p)
    \/ \E k \in CacheKeys : Expire(k)

SpecDirect == Init /\ [][NextDirect]_vars

(***************************************************************************)
(* The merge-window test on its own: a group with bounds [s, e] (seconds)   *)
(* and an event at t are drawn, then the cache-side test is applied to the  *)
(* group as the cache holds it and the store-side query to the group as a   *)
(* row of outages_groups.                                                   *)
(***************************************************************************)
RangeTimes == {x + d : x \in Times, d \in {0 - W - 1, 0 - W, 0 - 1, 0, 1, W, W + 1}}

InitRange ==
    /\ InitEngine
    /\ rangeIn \in {r \in [s : Times, e : Times, t : RangeTimes] : r.s <= r.e}
    /\ request = NoRequest
    /\ response = <<>>

CheckRange ==
    /\ rangeOut = <<>>
    /\ LET c == "AOT1D-25090001"
           ty == "led_outage"
           made == outageGroupRepo_createWithTx([groups |-> <<>>, items |-> <<>>],
                                                ty, c, rangeIn.s, rangeIn.e, FALSE)
           cached == setCachedGroup(made.ret, DefaultTtl).value
       IN  rangeOut' =
             [cache |-> isEventInTimeRange(cached, rangeIn.t),
              store |-> findByControllerAndEventType(made.db.groups, c, ty, rangeIn.t)
                            # {Null}]
    /\ UNCHANGED <<groups, items, cache, pc, ev, loc, res, nFailed, pre, rangeIn,
                   request, response>>

NextRange == CheckRange

SpecRange == InitRange /\ [][NextRange]_vars

(***************************************************************************)
(* Request validation (the middlewares in front of the two handlers).       *)
(* A field of a request body or query string is a JavaScript value: a       *)
(* string, a number, null or undefined.  Numbers that are timestamps are    *)
(* counted from EpochSecond like every time of the model; offsets and       *)
(* limits are plain counts.                                                 *)
(***************************************************************************)
\* the second from which the times of the model are counted (the range of
\* valid timestamps does not fit 32 bits otherwise)
EpochSecond == 2 * 1000 * 1000 * 1000
Zero == 0 - EpochSecond
\* 946684800 (2000-01-01) and 4102444800 (2100-01-01)
MIN_TIMESTAMP == 946684800 - EpochSecond
MAX_TIMESTAMP == (41024448 - EpochSecond \div 100) * 100

JsString(s) == [kind |-> "string", val |-> s]
JsNumber(n) == [kind |-> "number", val |-> n]
\* the number n + 0.5
JsFraction(n) == [kind |-> "fraction", val |-> n]
\* the string of the decimal digits of n, and the string "n.5"
Numeral(n) == [kind |-> "numeral", val |-> n]
Decimal(n) == [kind |-> "decimal", val |-> n]

TypeOf(v) ==
    IF v.kind \in {"string", "numeral", "decimal"} THEN "string"
    ELSE IF v.kind \in {"number", "fraction"} THEN "number"
    ELSE IF v.kind = "undefined" THEN "undefined"
    ELSE "object"

\* !v
Falsy(v) == v \in {Undefined, Null, JsString(""), JsNumber(0)}

\* String.prototype.trim on the strings the requests carry
Trim(str) == IF str \in {"", "   "} THEN "" ELSE str

\* Number(v); zero is what 0 is in the unit of the field
ToNumber(v, zero) ==
    IF v.kind \in {"number", "numeral"} THEN [nan |-> FALSE, int |-> TRUE, val |-> v.val]
    ELSE IF v.kind \in {"fraction", "decimal"}
         THEN [nan |-> FALSE, int |-> FALSE, val |-> v.val]
    ELSE IF v.kind = "null" THEN [nan |-> FALSE, int |-> TRUE, val |-> zero]
    ELSE IF v.kind = "string" /\ Trim(v.val) = ""
         THEN [nan |-> FALSE, int |-> TRUE, val |-> zero]
    ELSE [nan |-> TRUE, int |-> FALSE, val |-> zero]

\* res.status(400).json({success: false, error}) and next()
Bad(field, error) == [kind |-> "json", status |-> 400, success |-> FALSE,
                      error |-> <<field, error>>]
CallNext == [kind |-> "next"]

\* the checks of controller_id in validateDataProcessRequest
CheckControllerId(v) ==
    IF Falsy(v) THEN <<Bad("controller_id", "is required")>>
    ELSE IF TypeOf(v) # "string" THEN <<Bad("controller_id", "must be a string")>>
    ELSE IF v.kind = "string" /\ Trim(v.val) = ""
         THEN <<Bad("controller_id", "cannot be empty")>>
    ELSE <<>>

\* the checks of event_type (outage_type in a query)
CheckEventType(field, v) ==
    IF Falsy(v) THEN <<Bad(field, "is required")>>
    ELSE IF TypeOf(v) # "string" THEN <<Bad(field, "must be a string")>>
    ELSE IF ~(v.kind = "string" /\ v.val \in ALLOWED_EVENT_TYPES)
         THEN <<Bad(field, "must be one of: panel_outage, temperature_outage, led_outage")>>
    ELSE <<>>

\* the checks of timestamp (start_time and end_time in a query)
CheckUnixTime(field, v, min, max) ==
    LET parsed == ToNumber(v, Zero)
    IN  IF v = Undefined \/ v = Null THEN <<Bad(field, "is required")>>
        ELSE IF parsed.nan THEN <<Bad(field, "must be a valid number")>>
        ELSE IF ~parsed.int \/ parsed.val < Zero
             THEN <<Bad(field, "must be a valid unix timestamp (positive integer)")>>
        ELSE IF parsed.val < min \/ parsed.val > max
             THEN <<Bad(field, "is out of valid range (must be between 2000-01-01 and 2100-01-01)")>>
        ELSE <<>>

\* validateDataProcessRequest with the lower end of the range left at 0
validateDataProcessRequestNoMinimum(body) ==
    LET c == CheckControllerId(body.controller_id)
        e == CheckEventType("event_type", body.event_type)
        t == CheckUnixTime("timestamp", body.timestamp, Zero, MAX_TIMESTAMP)
    IN  IF c # <<>> THEN c
        ELSE IF e # <<>> THEN e
        ELSE IF t # <<>> THEN t
        ELSE <<CallNext>>

\* validateDataProcessRequest: the first check that fails answers 400 and
\* returns; next() is called when none does
validateDataProcessRequest(body) ==
    LET c == CheckControllerId(body.controller_id)
        e == CheckEventType("event_type", body.event_type)
        t == CheckUnixTime("timestamp", body.timestamp, MIN_TIMESTAMP, MAX_TIMESTAMP)
    IN  IF c # <<>> THEN c
        ELSE IF e # <<>> THEN e
        ELSE IF t # <<>> THEN t
        ELSE <<CallNext>>

\* start_time <= end_time, both already known to be integers in range
CheckQueryOrder(q) ==
    IF ToNumber(q.start_time, Zero).val > ToNumber(q.end_time, Zero).val
    THEN <<Bad("start_time", "cannot be greater than end_time")>>
    ELSE <<>>

\* the checks of the optional controller_id, offset and limit of a query
CheckQueryOptional(q) ==
    LET offset == ToNumber(q.offset, 0)
        limit == ToNumber(q.limit, 0)
    IN  IF q.controller_id # Undefined /\ TypeOf(q.controller_id) # "string"
        THEN <<Bad("controller_id", "must be a string")>>
        ELSE IF /\ q.controller_id # Undefined /\ q.controller_id.kind = "string"
                /\ Trim(q.controller_id.val) = ""
             THEN <<Bad("controller_id", "cannot be empty")>>
        ELSE IF q.offset # Undefined /\ offset.nan
             THEN <<Bad("offset", "must be a valid number")>>
        ELSE IF q.offset # Undefined /\ (~offset.int \/ offset.val < 0)
             THEN <<Bad("offset", "must be a non-negative integer")>>
        ELSE IF q.limit # Undefined /\ limit.nan
             THEN <<Bad("limit", "must be a valid number")>>
        ELSE IF q.limit # Undefined /\ (~limit.int \/ limit.val <= 0)
             THEN <<Bad("limit", "must be a positive integer")>>
        ELSE <<>>

\* validateOutageQueryRequest with the return missing after the 400 of the
\* comparison of start_time and end_time
validateOutageQueryRequestNoReturn(q) ==
    LET ty == CheckEventType("outage_type", q.outage_type)
        st == CheckUnixTime("start_time", q.start_time, MIN_TIMESTAMP, MAX_TIMESTAMP)
        en == CheckUnixTime("end_time", q.end_time, MIN_TIMESTAMP, MAX_TIMESTAMP)
        opt == CheckQueryOptional(q)
    IN  IF ty # <<>> THEN ty
        ELSE IF st # <<>> THEN st
        ELSE IF en # <<>> THEN en
        ELSE CheckQueryOrder(q) \o (IF opt # <<>> THEN opt ELSE <<CallNext>>)

\* validateOutageQueryRequest
validateOutageQueryRequest(q) ==
    LET ty == CheckEventType("outage_type", q.outage_type)
        st == CheckUnixTime("start_time", q.start_time, MIN_TIMESTAMP, MAX_TIMESTAMP)
        en == CheckUnixTime("end_time", q.end_time, MIN_TIMESTAMP, MAX_TIMESTAMP)
        opt == CheckQueryOptional(q)
    IN  IF ty # <<>> THEN ty
        ELSE IF st # <<>> THEN st
        ELSE IF en # <<>> THEN en
        ELSE IF CheckQueryOrder(q) # <<>> THEN CheckQueryOrder(q)
        ELSE IF opt # <<>> THEN opt
        ELSE <<CallNext>>

\* the bodies of POST /data-process and the query strings of
\* GET /outages/groups that are examined
DataProcessRequests ==
    [route : {"data-process"},
     controller_id : {Undefined, JsString(""), JsString("   "),
                      JsString("AOT1D-25090001"), JsNumber(5)},
     event_type : {Undefined, JsString(""), JsString("led_outage"),
                   JsString("fan_outage"), JsNumber(5)},
     timestamp : {Undefined, Null, JsString("abc"), JsString(""), Numeral(2 * W),
                  JsFraction(2 * W)}
                 \cup {JsNumber(n) : n \in {Zero - 1, Zero, MIN_TIMESTAMP - 1,
                                            MIN_TIMESTAMP, 2 * W, MAX_TIMESTAMP,
                                            MAX_TIMESTAMP + 1}}]

OutageQueryRequests ==
    [route : {"outages/groups"},
     outage_type : {Undefined, JsString("led_outage"), JsString("fan_outage")},
     start_time : {Undefined, JsString("abc"), Decimal(2 * W), Numeral(2 * W),
                   Numeral(2 * W + 1), Numeral(MIN_TIMESTAMP - 1)},
     end_time : {Undefined, JsString("abc"), Decimal(2 * W), Numeral(2 * W),
                 Numeral(2 * W + 1), Numeral(MAX_TIMESTAMP + 1)},
     controller_id : {Undefined, JsString("   "), JsString("AOT1D-25090001")},
     offset : {Undefined, Numeral(0), Numeral(0 - 1), JsString("abc")},
     limit : {Undefined, Numeral(0), Numeral(1), Decimal(1)}]

InitValidate ==
    /\ InitEngine
    /\ rangeIn = <<>>
    /\ request \in DataProcessRequests \cup OutageQueryRequests
    /\ response = <<>>

\* POST /data-process: the middleware
ValidateDataProcess ==
    /\ request.route = "data-process"
    /\ response = <<>>
    /\ response' = validateDataProcessRequest(request)
    /\ UNCHANGED <<groups, items, cache, pc, ev, loc, res, nFailed, pre,
                   rangeIn, rangeOut, request>>

\* POST /data-process: processData, which runs when the middleware called
\* next(), calls processOutageEvent with timestamp: Number(timestamp)
ProcessData ==
    /\ request.route = "data-process"
    /\ \E i \in 1..Len(response) : response[i] = CallNext
    /\ Begin(1, request.controller_id.val, request.event_type.val,
             ToNumber(request.timestamp, Zero).val)
    /\ UNCHANGED pre

\* GET /outages/groups: the middleware
ValidateOutageQuery ==
    /\ request.route = "outages/groups"
    /\ response = <<>>
    /\ response' = validateOutageQueryRequest(request)
    /\ UNCHANGED <<groups, items, cache, pc, ev, loc, res, nFailed, pre,
                   rangeIn, rangeOut, request>>

NextValidate ==
    \/ ValidateDataProcess
    \/ ProcessData
    \/ ValidateOutageQuery

SpecValidate == InitValidate /\ [][NextValidate]_vars

(***************************************************************************)
(* GET /outages/groups: handler, service and repository.  The store is      *)
(* queried between invocations of the engine; a client pages through one    *)
(* result while the store stays as it is.                                   *)
(***************************************************************************)
MaxPages == 2

\* a row of outages_groups as the Prisma client returns it
RowToModel(row) ==
    [id |-> BigIntId(row.id),
     eventType |-> row.event_type,
     controllerId |-> row.controller_id,
     startTime |-> DateOf(row.start_time),
     endTime |-> DateOf(row.end_time)]

\* the where condition with containment in place of overlap
QueryWhereContained(rows, filters) ==
    LET queryStartTime == NewDateFromSeconds(filters.startTime)
        queryEndTime == NewDateFromSeconds(filters.endTime)
    IN  {i \in 1..Len(rows) :
            /\ rows[i].event_type = filters.outageType
            /\ rows[i].start_time >= DateGetTime(queryStartTime)
            /\ rows[i].end_time <= DateGetTime(queryEndTime)
            /\ ~Falsy(filters.controllerId)
                  => rows[i].controller_id = filters.controllerId.val}

\* the where condition of findAndCountByQueryCriteria
QueryWhere(rows, filters) ==
    LET queryStartTime == NewDateFromSeconds(filters.startTime)
        queryEndTime == NewDateFromSeconds(filters.endTime)
    IN  {i \in 1..Len(rows) :
            /\ rows[i].event_type = filters.outageType
            /\ rows[i].start_time <= DateGetTime(queryEndTime)
            /\ rows[i].end_time >= DateGetTime(queryStartTime)
            /\ ~Falsy(filters.controllerId)
                  => rows[i].controller_id = filters.controllerId.val}

\* ORDER BY start_time DESC: the orders in which MySQL may deliver the rows
\* m (rows that tie on start_time come in an order it does not fix, and
\* not the same one from one statement to the next)
OrderByStartTimeDesc(rows, m) ==
    {o \in [1..Cardinality(m) -> m] :
        /\ \A i, j \in 1..Cardinality(m) : i # j => o[i] # o[j]
        /\ \A i, j \in 1..Cardinality(m) :
              i < j => rows[o[i]].start_time >= rows[o[j]].start_time}

\* skip: offset, take: limit
SkipTake(o, offset, limit) ==
    SubSeq(o, offset + 1, IF offset + limit < Len(o) THEN offset + limit ELSE Len(o))

\* findAndCountByQueryCriteria(filters, pagination): the possible results
findAndCountByQueryCriteria(rows, filters, pagination) ==
    LET offset == IF pagination.offset = Undefined THEN 0 ELSE pagination.offset.val
        limit == IF pagination.limit = Undefined THEN 20 ELSE pagination.limit.val
        where == QueryWhere(rows, filters)
    IN  {[data |-> [i \in 1..Len(SkipTake(o, offset, limit)) |->
                        RowToModel(rows[SkipTake(o, offset, limit)[i]])],
          total |-> Cardinality(where)] : o \in OrderByStartTimeDesc(rows, where)}

\* the element of the response for one group
TransformGroup(group) ==
    [id |-> NumberId(group.id.val),
     outage_type |-> group.eventType,
     controller_id |-> group.controllerId,
     start_time |-> Numeral(DateGetTime(group.startTime) \div 1000),
     end_time |-> Numeral(DateGetTime(group.endTime) \div 1000)]

\* outageQueryService.queryOutageGroups(queryParams): the possible results
queryOutageGroups(rows, queryParams) ==
    LET offset == IF queryParams.offset = Undefined THEN JsNumber(0)
                  ELSE queryParams.offset
        limit == IF queryParams.limit = Undefined THEN JsNumber(20)
                 ELSE queryParams.limit
        filters == [outageType |-> queryParams.outageType,
                    startTime |-> queryParams.startTime,
                    endTime |-> queryParams.endTime,
                    controllerId |-> IF Falsy(queryParams.controllerId) THEN Undefined
                                     ELSE queryParams.controllerId]
    IN  {[data |-> [i \in 1..Len(r.data) |-> TransformGroup(r.data[i])],
          pagination |-> [total |-> r.total, offset |-> offset.val, limit |-> limit.val]] :
            r \in findAndCountByQueryCriteria(rows, filters,
                                              [offset |-> offset, limit |-> limit])}

\* the queryParams the handler builds from req.query
QueryParamsOf(q) ==
    [outageType |-> q.outage_type.val,
     startTime |-> ToNumber(q.start_time, Zero).val,
     endTime |-> ToNumber(q.end_time, Zero).val,
     controllerId |-> IF Falsy(q.controller_id) THEN Undefined ELSE q.controller_id,
     offset |-> IF q.offset = Undefined THEN Undefined
                ELSE JsNumber(ToNumber(q.offset, 0).val),
     limit |-> IF q.limit = Undefined THEN Undefined
               ELSE JsNumber(ToNumber(q.limit, 0).val)]

\* the query strings a client sends first
QueryStrings ==
    {[route |-> "outages/groups", outage_type |-> JsString(e), start_time |-> Numeral(w[1]),
      end_time |-> Numeral(w[2]), controller_id |-> c, offset |-> o, limit |-> l] :
        e \in {"led_outage", "panel_outage"},
        w \in {<<2 * W, 3 * W + 1>>, <<2 * W + 1, 2 * W + 1>>, <<3 * W + 1, 3 * W + 1>>},
        c \in {Undefined, JsString("AOT1D-25090001")},
        o \in {Undefined, Numeral(1)},
        l \in {Undefined, Numeral(1)}}

\* the query strings a client sends after the answer r to the query string
\* q: the one for the next page, while the total says there is one
NextPage(q, r) ==
    LET page == r.body.pagination
    IN  IF page.offset + page.limit < page.total
        THEN {[q EXCEPT !.offset = Numeral(page.offset + page.limit)]}
        ELSE {}

\* GET /outages/groups: validateOutageQueryRequest, then queryOutageGroups of
\* the handler, which answers 200 with the result of the service
Query ==
    /\ Running = {}
    /\ Len(response) < MaxPages
    /\ \E q \in (IF response = <<>> THEN QueryStrings
                 ELSE NextPage(request, response[Len(response)])) :
          /\ validateOutageQueryRequest(q) = <<CallNext>>
          /\ request' = q
          /\ \E result \in queryOutageGroups(groups, QueryParamsOf(q)) :
                response' = Append(response, [kind |-> "json", status |-> 200,
                                              query |-> q, body |-> result])
    /\ UNCHANGED <<groups, items, cache, pc, ev, loc, res, nFailed, pre,
                   rangeIn, rangeOut>>

\* the engine and the cache before the first page is asked for
StartQuery(p) == response = <<>> /\ StartSeq(p)
ExpireQuery(k) == response = <<>> /\ Expire(k)

NextQuery ==
    \/ \E p \in Procs : StartQuery(p)
    \/ \E p \in Procs : GetCached(p)
    \/ \E p \in Procs : FindMatching(p)
    \/ \E p \in Procs : AddEventToGroup(p)
    \/ \E p \in Procs : CreateNewGroup(p)
    \/ \E p \in Procs : SetCache(p)
    \/ \E k \in CacheKeys : ExpireQuery(k)
    \/ Query

SpecQuery == Init /\ [][NextQuery]_vars

(***************************************************************************)
(* A query while events of one key are processed.  findAndCountByQuery-      *)
(* Criteria issues findMany and count as two statements under Promise.all,   *)
(* outside any transaction: each reads the store as it is when it runs, in   *)
(* either order, and a commit of the engine may come between them.           *)
(***************************************************************************)
\* the query strings of the query that is under way
QueriesRacing ==
    {q \in QueryStrings : /\ q.outage_type = JsString(KeyLate[2])
                          /\ q.controller_id = Undefined /\ q.offset = Undefined}

InitRacing ==
    /\ InitEngine
    /\ rangeIn = <<>>
    /\ request \in QueriesRacing
    /\ response = <<>>

\* the query before either statement has run; pageRows and countRows are
\* the rows of outages_groups each statement read from
NoStatement ==
    [kind |-> "pending", ran |-> {}, data |-> <<>>, total |-> 0,
     pageRows |-> <<>>, countRows |-> <<>>]

Statements == IF response = <<>> THEN NoStatement ELSE response[1]

\* queryOutageGroups of the service and res.status(200).json(result) of the
\* handler, once both statements have answered
Answer(q, st) ==
    IF st.ran # {"findMany", "count"} THEN st
    ELSE [kind |-> "json", status |-> 200, query |-> q, ran |-> st.ran,
          body |-> [data |-> [i \in 1..Len(st.data) |-> TransformGroup(st.data[i])],
                    pagination |-> [total |-> st.total,
                                    offset |-> IF QueryParamsOf(q).offset = Undefined
                                               THEN 0 ELSE QueryParamsOf(q).offset.val,
                                    limit |-> IF QueryParamsOf(q).limit = Undefined
                                              THEN 20 ELSE QueryParamsOf(q).limit.val]],
          pageRows |-> st.pageRows, countRows |-> st.countRows]

\* prisma.outagesGroup.findMany({where, orderBy, skip, take})
QueryFindMany ==
    /\ request.route = "outages/groups"
    /\ validateOutageQueryRequest(request) = <<CallNext>>
    /\ Statements.kind = "pending" /\ "findMany" \notin Statements.ran
    /\ \E r \in findAndCountByQueryCriteria(groups, QueryParamsOf(request),
                                             QueryParamsOf(request)) :
          response' = <<Answer(request, [Statements EXCEPT !.ran = @ \cup {"findMany"},
                                                           !.data = r.data,
                                                           !.pageRows = groups])>>
    /\ UNCHANGED <<groups, items, cache, pc, ev, loc, res, nFailed, pre,
                   rangeIn, rangeOut, request>>

\* prisma.outagesGroup.count({where})
QueryCount ==
    /\ request.route = "outages/groups"
    /\ validateOutageQueryRequest(request) = <<CallNext>>
    /\ Statements.kind = "pending" /\ "count" \notin Statements.ran
    /\ \E r \in findAndCountByQueryCriteria(groups, QueryParamsOf(request),
                                             QueryParamsOf(request)) :
          response' = <<Answer(request, [Statements EXCEPT !.ran = @ \cup {"count"},
                                                           !.total = r.total,
                                                           !.countRows = groups])>>
    /\ UNCHANGED <<groups, items, cache, pc, ev, loc, res, nFailed, pre,
                   rangeIn, rangeOut, request>>

StartRacing(p) ==
    /\ Running = {}
    /\ \E t \in Times : Begin(p, KeyLate[1], KeyLate[2], t)
    /\ pre' = [groups |-> groups, items |-> items, cache |-> cache]

NextRacing ==
    \/ \E p \in Procs : StartRacing(p)
    \/ \E p \in Procs : GetCached(p)
    \/ \E p \in Procs : FindMatching(p)
    \/ \E p \in Procs : AddEventToGroup(p)
    \/ \E p \in Procs : CreateNewGroup(p)
    \/ \E p \in Procs : SetCache(p)
    \/ \E k \in CacheKeys : Expire(k)
    \/ QueryFindMany
    \/ QueryCount

SpecRacing == InitRacing /\ [][NextRacing]_vars

(***************************************************************************)
(* Vocabulary of the properties.  Times are in seconds here; the store and  *)
(* the cache hold milliseconds.                                             *)
(***************************************************************************)
KeyOf(p) == <<ev[p].controller_id, ev[p].event_type>>
Arrived(k) == {p \in Procs : pc[p] # "idle" /\ KeyOf(p) = k}
TimesOf(k) == {ev[p].timestamp : p \in Arrived(k)}
GroupsOf(rows, k) ==
    {i \in 1..Len(rows) : rows[i].controller_id = k[1] /\ rows[i].event_type = k[2]}
ItemsOf(g) == {i \in 1..Len(items) : items[i].group_id = g}
Seconds(ms) == ms \div 1000
Least(S) == CHOOSE x \in S : \A y \in S : x <= y
Greatest(S) == CHOOSE x \in S : \A y \in S : x >= y
Succeeded(p, action) == res[p].kind = "ok" /\ res[p].action = action

\* the events of key k arrived with distinct, increasing timestamps, each at
\* most 3600 s after the one before
ArrivedInOrderWithinGaps(k) ==
    \A p, q \in Arrived(k) :
        (p < q /\ ~\E r \in Arrived(k) : p < r /\ r < q)
            => /\ ev[p].timestamp < ev[q].timestamp
               /\ ev[q].timestamp - ev[p].timestamp <= 3600

\* the events of key k have distinct timestamps whose sorted gaps are all <= 3600 s
DistinctWithinGaps(k) ==
    /\ \A p, q \in Arrived(k) : p # q => ev[p].timestamp # ev[q].timestamp
    /\ \A t \in TimesOf(k) :
          t # Least(TimesOf(k))
              => \E u \in TimesOf(k) : u < t /\ t - u <= 3600

\* exactly one group of key k, holding one item per arrived event and
\* spanning [min, max] of the timestamps
SingleGroup(k) ==
    /\ Cardinality(GroupsOf(groups, k)) = 1
    /\ \A g \in GroupsOf(groups, k) :
          /\ {Seconds(items[i].occurrence_time) : i \in ItemsOf(g)} = TimesOf(k)
          /\ Cardinality(ItemsOf(g)) = Cardinality(Arrived(k))
          /\ Seconds(groups[g].start_time) = Least(TimesOf(k))
          /\ Seconds(groups[g].end_time) = Greatest(TimesOf(k))

\* C1: from an empty store and cache, events of one key processed one at a
\* time in increasing timestamp order with every gap <= 3600 s, no call
\* failing and the cache expiring whenever it likes, end in exactly one group
\* that holds every item and spans [min, max] of the timestamps.
C1_InOrderSingleGroup ==
    \A k \in Keys :
        (Running = {} /\ Arrived(k) # {} /\ ArrivedInOrderWithinGaps(k))
            => SingleGroup(k)

\* three events of one key, more than a window between the first and the
\* last, one merged through the cache and one through the store
C1_Witness ==
    \E k \in Keys :
        /\ Running = {}
        /\ Cardinality(Arrived(k)) = 3
        /\ ArrivedInOrderWithinGaps(k)
        /\ Greatest(TimesOf(k)) - Least(TimesOf(k)) > 3600
        /\ \E p, q \in Arrived(k) :
              Succeeded(p, "added_to_cached_group") /\ Succeeded(q, "added_to_db_group")
        /\ SingleGroup(k)

\* C2: the same for any arrival order of distinct timestamps whose sorted
\* gaps are all <= 3600 s.
C2_AnyOrderSingleGroup ==
    \A k \in Keys :
        (Running = {} /\ Arrived(k) # {} /\ DistinctWithinGaps(k))
            => SingleGroup(k)

\* the window test of the specification, in seconds
Admits(s, e, t) == s - 3600 <= t /\ t <= e + 3600

\* neither the cache entry of the event's key nor a stored group of that key
\* admitted the event when its invocation started
NotAdmittedAtStart(p) ==
    LET entry == pre.cache[<<"outage_group", ev[p].controller_id, ev[p].event_type>>]
    IN  /\ entry # NoEntry
            => ~Admits(Seconds(entry.value.start_time.ms),
                       Seconds(entry.value.end_time.ms), ev[p].timestamp)
        /\ \A g \in GroupsOf(pre.groups, KeyOf(p)) :
              ~Admits(Seconds(pre.groups[g].start_time),
                      Seconds(pre.groups[g].end_time), ev[p].timestamp)

LastStarted == Greatest({p \in Procs : pc[p] # "idle"})

CreatedAlone(p) ==
    LET id == Len(pre.groups) + 1
    IN  /\ res[p] = Ok("created_new_group", NumberId(id))
        /\ groups = Append(pre.groups,
                           [id |-> id, event_type |-> ev[p].event_type,
                            controller_id |-> ev[p].controller_id,
                            start_time |-> ev[p].timestamp * 1000,
                            end_time |-> ev[p].timestamp * 1000])
        /\ items = Append(pre.items,
                          [id |-> Len(pre.items) + 1, group_id |-> id,
                           occurrence_time |-> ev[p].timestamp * 1000])

C4_DecisionOrder ==
    \A p \in Procs :
        res[p].kind = "ok" =>
            LET c == loc[p].cachedGroup
                d == loc[p].dbGroup
                hit == /\ c # Null
                       /\ Admits(Seconds(c.start_time.ms), Seconds(c.end_time.ms),
                                 ev[p].timestamp)
            IN  /\ res[p].success
                /\ res[p].action \in {"added_to_cached_group", "added_to_db_group",
                                      "created_new_group"}
                /\ res[p].action = "added_to_cached_group" <=> hit
                /\ hit => ~loc[p].probed /\ res[p].group_id = c.id
                /\ ~hit => loc[p].probed
                /\ res[p].action = "added_to_db_group" <=> (~hit /\ d # Null)
                /\ res[p].action = "added_to_db_group" => res[p].group_id = d.id
                /\ res[p].action = "created_new_group" <=> (~hit /\ d = Null)
                /\ \E i \in 1..Len(items) :
                      /\ items[i].group_id = res[p].group_id.val
                      /\ items[i].occurrence_time = ev[p].timestamp * 1000

\* the three outcomes side by side
C4_Witness ==
    \E p, q, r \in Procs :
        /\ Succeeded(p, "created_new_group")
        /\ Succeeded(q, "added_to_cached_group") /\ ~loc[q].probed
        /\ Succeeded(r, "added_to_db_group") /\ loc[r].cachedGroup # Null

\* C5: the cache-side test isEventInTimeRange and the store-side query
\* findByControllerAndEventType both admit an event at t into a group [s, e]
\* exactly when s - 3600 <= t <= e + 3600, so they never disagree.
C5_SameWindowInBothProbes ==
    rangeOut # <<>> =>
        /\ rangeOut.cache <=> Admits(rangeIn.s, rangeIn.e, rangeIn.t)
        /\ rangeOut.store <=> Admits(rangeIn.s, rangeIn.e, rangeIn.t)

\* an event exactly 3600 s before the start of a group that lasts some time:
\* admitted by both
C5_Witness ==
    /\ rangeOut # <<>>
    /\ rangeIn.s < rangeIn.e
    /\ rangeIn.t = rangeIn.s - 3600
    /\ rangeOut.cache /\ rangeOut.store

StoreErrors == {"StoreError:group", "StoreError:item", "StoreError:update",
                "DuplicateEntry"}
Merging == {"addCached", "addDb"}
Caching == {"cacheCached", "cacheDb", "cacheCreated"}
ItemRow(n, g, t) == [id |-> n, group_id |-> g, occurrence_time |-> t * 1000]
HasItem(rows, g, t) ==
    \E i \in 1..Len(rows) :
        rows[i].group_id = g /\ rows[i].occurrence_time = t * 1000

C7_MergeRollsBack ==
    [][\A p \in Procs :
         (pc[p] \in Merging /\ pc'[p] # pc[p] /\ res'[p] = Error("StoreError:update"))
            => /\ groups' = groups
               /\ items' = items
               /\ cache' = cache
               /\ pc'[p] = "error"
               /\ loc'[p].ncache = 0 /\ loc'[p].ncommit = 0]_vars

\* the boundary update of a merge failed: no item of the event, the group
\* as it was
C7_Witness ==
    \E p \in Procs :
        /\ res[p] = Error("StoreError:update")
        /\ loc[p].group # Undefined
        /\ ~HasItem(items, loc[p].group.id.val, ev[p].timestamp)
        /\ loc[p].ncache = 0

\* C8: a creation is atomic.  When the first item's insert fails after the
\* group row was inserted, the store has neither, the cache is not written
\* and the invocation ends with the error; no committed state has a group
\* without an item.
C8_CreateRollsBack ==
    /\ [](\A g \in 1..Len(groups) : ItemsOf(g) # {})
    /\ [][\A p \in Procs :
            (pc[p] = "create" /\ pc'[p] # pc[p] /\ res'[p] = Error("StoreError:item"))
               => /\ groups' = groups
                  /\ items' = items
                  /\ cache' = cache
                  /\ pc'[p] = "error"
                  /\ loc'[p].ncache = 0 /\ loc'[p].ncommit = 0]_vars

\* the item insert of a creation failed: the event left no group
C8_Witness ==
    \E p \in Procs :
        /\ res[p] = Error("StoreError:item")
        /\ loc[p].probed /\ loc[p].dbGroup = Null
        /\ \A g \in 1..Len(groups) :
              groups[g].start_time # ev[p].timestamp * 1000 \/ KeyOf(p) # <<groups[g].controller_id, groups[g].event_type>>

\* C9: when the cache write fails after the commit, the invocation ends
\* with that error, the committed rows stay as they are, and no second
\* store transaction is made.
C9_CacheFailureAfterCommit ==
    [][\A p \in Procs :
         (pc[p] \in Caching /\ pc'[p] # pc[p] /\ nFailed' # nFailed)
            => /\ res'[p] = Error("CacheWriteError")
               /\ pc'[p] = "error"
               /\ groups' = groups
               /\ items' = items
               /\ loc'[p].ntx = 1 /\ loc'[p].ncommit = 1
               /\ HasItem(items', IF pc[p] = "cacheCreated" THEN loc[p].updated.id.val
                                  ELSE loc[p].group.id.val, ev[p].timestamp)]_vars

\* the cache write of a creation failed: the group and its item are stored,
\* the cache has no entry for the key
C9_Witness ==
    \E p \in Procs :
        /\ res[p] = Error("CacheWriteError")
        /\ loc[p].dbGroup = Null /\ loc[p].probed
        /\ HasItem(items, loc[p].updated.id.val, ev[p].timestamp)
        /\ cache[<<"outage_group", ev[p].controller_id, ev[p].event_type>>] = NoEntry

\* C10: the cache is written only after the commit of the same invocation,
\* for the group of that transaction, and never when the transaction
\* failed; so every cache entry names a stored group, and its boundaries are
\* occurrence times of stored items of that group.
C10_CacheAfterCommit ==
    /\ [](\A k \in CacheKeys :
            cache[k] # NoEntry =>
               LET v == cache[k].value
               IN  /\ v.id.val \in 1..Len(groups)
                   /\ HasItem(items, v.id.val, Seconds(v.start_time.ms))
                   /\ HasItem(items, v.id.val, Seconds(v.end_time.ms)))
    /\ [](\A p \in Procs : loc[p].ncommit = 0 => loc[p].ncache = 0)
    /\ [][\A k \in CacheKeys :
            (cache'[k] # cache[k] /\ cache'[k] # NoEntry) =>
               \E p \in Procs :
                  /\ pc[p] \in Caching /\ pc'[p] = "done"
                  /\ loc[p].ncommit = 1
                  /\ cache'[k].value.id.val =
                        (IF pc[p] = "cacheCreated" THEN loc[p].updated.id.val
                         ELSE loc[p].group.id.val)]_vars

\* an entry written by a merge that followed a rolled-back merge for the
\* same key
C10_Witness ==
    \E p, q \in Procs :
        /\ p < q /\ KeyOf(p) = KeyOf(q)
        /\ res[p].kind = "error" /\ res[p].err \in StoreErrors /\ loc[p].ncache = 0
        /\ Succeeded(q, "added_to_cached_group")
        /\ cache[<<"outage_group", ev[q].controller_id, ev[q].event_type>>] # NoEntry

(***************************************************************************)
(* Failures of the cache read, stale snapshots, duplicates.                 *)
(***************************************************************************)
\* C11: a cache read that fails is handled like a miss: the invocation goes
\* on to the store probe and does not end with the error of the cache.
C11_CacheReadFailureIsMiss ==
    [][\A p \in Procs :
         (pc[p] = "getCached" /\ pc'[p] # pc[p] /\ nFailed' # nFailed)
            => /\ pc'[p] = "findMatching"
               /\ res'[p] = NoResult]_vars

\* the stored boundaries of group g cover the occurrence times of its items
Covers(rows, its, g) ==
    \A i \in 1..Len(its) :
        its[i].group_id = g =>
            /\ rows[g].start_time <= its[i].occurrence_time
            /\ its[i].occurrence_time <= rows[g].end_time

\* C12: a merge does not trust its snapshot: when it commits, also from a
\* snapshot that lags behind the stored group, the stored start_time is <=
\* and the stored end_time is >= the occurrence time of every item of the
\* group.
C12_MergeConsistentWithStore ==
    [][\A p \in Procs :
         (pc[p] \in Merging /\ pc'[p] \in Caching)
            => Covers(groups', items', loc[p].group.id.val)]_vars

\* C13: when the read of the group's last item after the insert returns
\* nothing during a merge, addEventToGroup fails with 'Failed to find last
\* item after creation', the transaction is rolled back and the cache is not
\* written.
C13_MissingLastItemIsFatal ==
    [][\A p \in Procs :
         (pc[p] \in Merging /\ pc'[p] # pc[p] /\ loc'[p].fault = "lastItem")
            => /\ res'[p] = Error("Failed to find last item after creation")
               /\ pc'[p] = "error"
               /\ groups' = groups
               /\ items' = items
               /\ cache' = cache
               /\ loc'[p].ncache = 0]_vars

\* C14: every stored group has start_time <= end_time, whatever the
\* interleaving of invocations, the age of the cache entries and the cache
\* writes that failed.
C14_StartNotAfterEnd ==
    \A g \in 1..Len(groups) : groups[g].start_time <= groups[g].end_time

\* a cache write failed, a later merge went by the entry that was left, and
\* the group it wrote no longer covers its items: still start < end
C14_Witness ==
    \E g \in 1..Len(groups), p \in Procs :
        /\ res[p] = Error("CacheWriteError")
        /\ \E q \in Procs : q > p /\ Succeeded(q, "added_to_cached_group")
                                  /\ res[q].group_id.val = g
        /\ ~Covers(groups, items, g)
        /\ groups[g].start_time < groups[g].end_time

\* C15: the boundaries of a stored group only widen: no step raises a
\* start_time or lowers an end_time.
C15_BoundariesOnlyWiden ==
    [][\A g \in 1..Len(groups) :
         /\ groups'[g].start_time <= groups[g].start_time
         /\ groups'[g].end_time >= groups[g].end_time]_vars

\* C16: no group holds two items with the same occurrence time; a merge of
\* an event whose timestamp the group already has ends with the error of the
\* store, and leaves groups, items and cache as they were.
C16_DuplicateRejected ==
    /\ [](\A i, j \in 1..Len(items) :
            (items[i].group_id = items[j].group_id
                /\ items[i].occurrence_time = items[j].occurrence_time) => i = j)
    /\ [][\A p \in Procs :
            (/\ pc[p] \in Merging /\ pc'[p] # pc[p]
             /\ HasItem(items, loc[p].group.id.val, ev[p].timestamp))
               => /\ pc'[p] = "error"
                  /\ res'[p].err \in {"DuplicateEntry", "StoreError:item"}
                  /\ groups' = groups
                  /\ items' = items
                  /\ cache' = cache]_vars

\* the same event sent twice: the second is refused by the index, the group
\* has the item once and no other group was made for it
C16_Witness ==
    \E p \in Procs :
        /\ res[p] = Error("DuplicateEntry")
        /\ loc[p].ncache = 0
        /\ Cardinality({i \in 1..Len(items) :
                           /\ items[i].group_id = loc[p].group.id.val
                           /\ items[i].occurrence_time = ev[p].timestamp * 1000}) = 1
        /\ Cardinality(GroupsOf(groups, KeyOf(p))) = 1

(***************************************************************************)
(* The two probes compared.                                                 *)
(***************************************************************************)
\* C17: for the same store and the same event, the merge made through a
\* cache entry that admits the event leaves the groups and items that the
\* merge through the store probe (no cache entry) would leave.
C17_CacheHitEqualsStoreHit ==
    [][\A p \in Procs :
         (pc[p] = "addCached" /\ pc'[p] = "cacheCached") =>
            \A d \in findByControllerAndEventType(groups, ev[p].controller_id,
                                                  ev[p].event_type, ev[p].timestamp) :
               /\ d # Null
               /\ LET out == prisma_transaction(Store,
                                 addEventToGroupTx(Store, d, ev[p].timestamp, "none"))
                  IN  /\ out.ok
                      /\ groups' = out.db.groups
                      /\ items' = out.db.items]_vars

\* the groups of key k whose window, widened by 3600 s, holds t
Admitting(rows, k, t) ==
    {g \in GroupsOf(rows, k) :
        Admits(Seconds(rows[g].start_time), Seconds(rows[g].end_time), t)}

Created(p) ==
    /\ pc[p] \in {"done", "error"}
    /\ loc[p].probed /\ loc[p].dbGroup = Null /\ loc[p].ncommit = 1

\* p and q created a group each for the same key although their timestamps
\* are within 3600 s of each other: neither saw the other's group
Raced(p, q) ==
    /\ p < q /\ KeyOf(p) = KeyOf(q)
    /\ Created(p) /\ Created(q)
    /\ ev[p].timestamp - ev[q].timestamp <= 3600
    /\ ev[q].timestamp - ev[p].timestamp <= 3600

\* after the race of p and q, invocation r of the same key, whose timestamp
\* both groups admit, decides in this step where its event goes
DecidesAfterRace(p, q, r) ==
    /\ Raced(p, q) /\ KeyOf(r) = KeyOf(p)
    /\ pc[r] \in {"getCached", "findMatching"}
    /\ pc'[r] \in Merging \cup {"create"}
    /\ {loc[p].updated.id.val, loc[q].updated.id.val}
           \subseteq Admitting(groups, KeyOf(r), ev[r].timestamp)

C20_EngineRejectsUnknownType ==
    [][\A p \in Procs :
         (ev[p].event_type \notin ALLOWED_EVENT_TYPES /\ pc[p] # "idle" /\ pc'[p] # pc[p])
            => /\ groups' = groups
               /\ items' = items
               /\ cache' = cache
               /\ pc'[p] # "done"]_vars

(***************************************************************************)
(* Boundary arithmetic and the cache refresh of a merge.                    *)
(***************************************************************************)
\* the event of p lies inside the snapshot p merges into, bounds included
Contained(p) ==
    /\ loc[p].group.start_time.ms <= ev[p].timestamp * 1000
    /\ ev[p].timestamp * 1000 <= loc[p].group.end_time.ms

C22_CacheEntryMatchesCommitted ==
    [][\A p \in Procs :
         /\ (pc[p] \in Merging /\ pc'[p] \in Caching) =>
               LET v == groupToCache(loc'[p].group, loc'[p].updated)
                   row == groups'[loc[p].group.id.val]
               IN  /\ v.start_time.ms = row.start_time
                   /\ v.end_time.ms = row.end_time
         /\ (pc[p] \in {"cacheCached", "cacheDb"} /\ pc'[p] = "done") =>
               LET g == loc[p].group
                   v == cache'[<<"outage_group", g.controller_id, g.event_type>>].value
                   c == groupToCache(g, loc[p].updated)
               IN  /\ v.id = [kind |-> "string", val |-> g.id.val]
                   /\ v.controller_id = g.controller_id
                   /\ v.event_type = g.event_type
                   /\ v.start_time.ms = c.start_time.ms
                   /\ v.end_time.ms = c.end_time.ms]_vars

\* C22 as amended: the entry has the id, controller and event type of the
\* snapshot, the boundary the merge has just committed (start_time when the
\* start was extended, end_time when the end was) and the snapshot's value
\* for every boundary the merge did not write; so it equals the stored
\* boundaries whenever the snapshot did.
C22_CacheEntryIsSnapshotPlusUpdate ==
    [][\A p \in Procs :
         /\ (pc[p] \in Merging /\ pc'[p] \in Caching) =>
               LET g == loc[p].group
                   t == ev[p].timestamp * 1000
                   v == groupToCache(loc'[p].group, loc'[p].updated)
                   old == groups[g.id.val]
                   row == groups'[g.id.val]
               IN  /\ t < g.start_time.ms =>
                         /\ v.start_time.ms = t /\ row.start_time = t
                         /\ v.end_time.ms = g.end_time.ms
                   /\ t > g.end_time.ms =>
                         /\ v.end_time.ms = t /\ row.end_time = t
                         /\ v.start_time.ms = g.start_time.ms
                   /\ Contained(p) =>
                         /\ v.start_time.ms = g.start_time.ms
                         /\ v.end_time.ms = g.end_time.ms
                   /\ (g.start_time.ms = old.start_time /\ g.end_time.ms = old.end_time)
                         => /\ v.start_time.ms = row.start_time
                            /\ v.end_time.ms = row.end_time
         /\ (pc[p] \in {"cacheCached", "cacheDb"} /\ pc'[p] = "done") =>
               LET g == loc[p].group
                   v == cache'[<<"outage_group", g.controller_id, g.event_type>>].value
                   c == groupToCache(g, loc[p].updated)
               IN  /\ v.id = [kind |-> "string", val |-> g.id.val]
                   /\ v.controller_id = g.controller_id
                   /\ v.event_type = g.event_type
                   /\ v.start_time.ms = c.start_time.ms
                   /\ v.end_time.ms = c.end_time.ms]_vars

\* a merge through a snapshot that lagged behind the store wrote the end
\* it committed and the start of the snapshot, which the store no longer has
C22_Witness ==
    \E p \in Procs :
        /\ Succeeded(p, "added_to_cached_group")
        /\ ev[p].timestamp * 1000 > loc[p].group.end_time.ms
        /\ LET e == cache[<<"outage_group", ev[p].controller_id, ev[p].event_type>>]
               row == groups[loc[p].group.id.val]
           IN  /\ e # NoEntry
               /\ e.value.id.val = loc[p].group.id.val
               /\ e.value.end_time.ms = ev[p].timestamp * 1000
               /\ row.end_time = ev[p].timestamp * 1000
               /\ e.value.start_time.ms = loc[p].group.start_time.ms
               /\ row.start_time < e.value.start_time.ms

\* C23: requests one at a time, in any arrival order, nothing failing:
\* every stored group has start_time = the least and end_time = the greatest
\* occurrence time of its items.
C23_BoundariesAreRecomputation ==
    \A g \in 1..Len(groups) :
        /\ ItemsOf(g) # {}
        /\ groups[g].start_time = Least({items[i].occurrence_time : i \in ItemsOf(g)})
        /\ groups[g].end_time = Greatest({items[i].occurrence_time : i \in ItemsOf(g)})

\* a group of three items that arrived out of order: the middle one
\* first, then the latest, then the earliest
C23_Witness ==
    \E g \in 1..Len(groups) :
        /\ Cardinality(ItemsOf(g)) = 3
        /\ \E i, j, k \in ItemsOf(g) :
              /\ i < j /\ j < k
              /\ items[k].occurrence_time < items[i].occurrence_time
              /\ items[i].occurrence_time < items[j].occurrence_time
              /\ groups[g].start_time = items[k].occurrence_time
              /\ groups[g].end_time = items[j].occurrence_time

C27_OnlyBoundariesChange ==
    [][/\ Len(groups') >= Len(groups)
       /\ Len(items') >= Len(items)
       /\ \A i \in 1..Len(items) : items'[i] = items[i]
       /\ \A g \in 1..Len(groups) :
             /\ groups'[g].id = groups[g].id
             /\ groups'[g].controller_id = groups[g].controller_id
             /\ groups'[g].event_type = groups[g].event_type]_vars

\* a store that has seen a creation, a merge that moved an end and a
\* transaction that was rolled back
C27_Witness ==
    /\ Len(groups) >= 1 /\ Len(items) >= 2
    /\ \E g \in 1..Len(groups) : groups[g].start_time < groups[g].end_time
    /\ \E p \in Procs : res[p].kind = "error" /\ res[p].err \in StoreErrors

\* C28: an invocation makes at most one store transaction and at most one
\* cache write, and a failure of the store probe or of the transaction ends
\* it with that error: nothing is retried, nothing swallowed.
C28_NoRetryNoSwallow ==
    /\ [](\A p \in Procs : loc[p].ntx <= 1 /\ loc[p].ncache <= 1)
    /\ [][\A p \in Procs :
            /\ (pc[p] = "findMatching" /\ pc'[p] # pc[p] /\ nFailed' # nFailed) =>
                  /\ pc'[p] = "error"
                  /\ res'[p] = Error("StoreError:find")
                  /\ loc'[p].ntx = 0 /\ loc'[p].ncache = 0
            /\ (/\ pc[p] \in Merging \cup {"create"} /\ pc'[p] # pc[p]
                /\ loc'[p].fault \in {"group", "item", "update"}) =>
                  /\ pc'[p] = "error"
                  /\ res'[p].err \in StoreErrors
                  /\ loc'[p].ntx = 1 /\ loc'[p].ncache = 0
            /\ pc[p] \in {"done", "error"} =>
                  /\ pc'[p] = pc[p] /\ res'[p] = res[p] /\ loc'[p] = loc[p]]_vars

\* the store probe of an invocation failed: it ended with that error and
\* left no row
C28_Witness ==
    \E p \in Procs :
        /\ res[p] = Error("StoreError:find")
        /\ loc[p].ntx = 0 /\ loc[p].ncache = 0
        /\ ~HasItem(items, 1, ev[p].timestamp)
        /\ Len(groups) = 0

(***************************************************************************)
(* Queries.                                                                 *)
(***************************************************************************)
\* the stored groups a query string asks for: its type, its controller when
\* it names one, and an extent that meets [start_time, end_time]
Asked(q) ==
    {g \in 1..Len(groups) :
        /\ groups[g].event_type = q.outage_type.val
        /\ Seconds(groups[g].start_time) <= q.end_time.val
        /\ Seconds(groups[g].end_time) >= q.start_time.val
        /\ q.controller_id # Undefined => groups[g].controller_id = q.controller_id.val}
OffsetOf(q) == IF q.offset = Undefined THEN 0 ELSE q.offset.val
LimitOf(q) == IF q.limit = Undefined THEN 20 ELSE q.limit.val
IdsOf(data) == {data[i].id.val : i \in 1..Len(data)}

C25_PagesAreSlicesOfOneOrder ==
    response # <<>> =>
        LET m == Asked(response[1].query)
            c == Cardinality(m)
        IN  \E full \in [1..c -> m] :
                /\ \A i, j \in 1..c : i # j => full[i] # full[j]
                /\ \A i, j \in 1..c :
                      i < j => groups[full[i]].start_time >= groups[full[j]].start_time
                /\ \A n \in 1..Len(response) :
                      LET q == response[n].query
                          body == response[n].body
                          last == IF OffsetOf(q) + LimitOf(q) < c
                                  THEN OffsetOf(q) + LimitOf(q) ELSE c
                      IN  /\ body.pagination = [total |-> c, offset |-> OffsetOf(q),
                                                limit |-> LimitOf(q)]
                          /\ Len(body.data) = (IF last > OffsetOf(q)
                                               THEN last - OffsetOf(q) ELSE 0)
                          /\ \A i \in 1..Len(body.data) :
                                body.data[i].id.val = full[OffsetOf(q) + i]

(***************************************************************************)
(* Validation.                                                              *)
(***************************************************************************)
\* the number a field of the query string stands for (Number(v)), when it
\* is an integer
IsInt(v) == v.kind \in {"number", "numeral"}

\* C29: validateOutageQueryRequest answers 400 and does not call next when
\* start_time > end_time, accepts start_time = end_time, and for every
\* request does exactly one of the two: one 400 response and no next, or
\* next and no response.
C29_QueryOrderAndSingleOutcome ==
    (request.route = "outages/groups" /\ response # <<>>) =>
        /\ Len(response) = 1
        /\ response[1] = CallNext \/ (response[1].kind = "json" /\ response[1].status = 400)
        /\ (/\ IsInt(request.start_time) /\ IsInt(request.end_time)
            /\ request.start_time.val > request.end_time.val)
              => response[1] # CallNext
        /\ (/\ request.outage_type = JsString("led_outage")
            /\ request.start_time = Numeral(7200) /\ request.end_time = Numeral(7200)
            /\ request.controller_id = Undefined
            /\ request.offset = Undefined /\ request.limit = Undefined)
              => response[1] = CallNext

\* a query that is valid but for start_time = end_time + 1: refused for
\* that reason
C29_Witness ==
    /\ request.route = "outages/groups"
    /\ request.start_time = Numeral(7201) /\ request.end_time = Numeral(7200)
    /\ response = <<Bad("start_time", "cannot be greater than end_time")>>

\* what the claim calls a validated event
ValidEvent(b) ==
    /\ b.controller_id.kind = "string" /\ b.controller_id.val \notin {"", "   "}
    /\ b.event_type.kind = "string"
    /\ b.event_type.val \in {"panel_outage", "temperature_outage", "led_outage"}
    /\ IsInt(b.timestamp)
    /\ 946684800 - EpochSecond <= b.timestamp.val
    /\ b.timestamp.val <= MAX_TIMESTAMP

\* C30: validateDataProcessRequest calls next, and processOutageEvent runs,
\* only for a request whose controller_id is a non-blank string, whose
\* event_type is one of the three and whose timestamp is an integer in
\* [946684800, 4102444800]; any other request is answered 400, the engine
\* is not invoked and store and cache stay as they are.
C30_OnlyValidatedEventsReachEngine ==
    request.route = "data-process" =>
        /\ pc[1] # "idle" => (ValidEvent(request) /\ response = <<CallNext>>)
        /\ response # <<>> =>
              /\ Len(response) = 1
              /\ response[1] = CallNext <=> ValidEvent(request)
              /\ response[1] # CallNext =>
                    /\ response[1].kind = "json" /\ response[1].status = 400
                    /\ pc[1] = "idle"
        /\ groups = <<>> /\ items = <<>>
        /\ \A k \in CacheKeys : cache[k] = NoEntry

\* the earliest timestamp that is valid reached the engine
C30_Witness ==
    /\ request.route = "data-process"
    /\ request.timestamp = JsNumber(MIN_TIMESTAMP)
    /\ response = <<CallNext>>
    /\ pc[1] = "getCached"
    /\ ev[1].timestamp = MIN_TIMESTAMP

(***************************************************************************)
(* Concurrency, coherence and termination.                                  *)
(***************************************************************************)
\* invocation p committed a merge into a group
Merged(p) ==
    /\ pc[p] \in Caching \cup {"done", "error"}
    /\ loc[p].ncommit = 1
    /\ loc[p].group # Undefined

\* p and q merged into one group from the same snapshot of it, and no
\* other merge into that group is under way
MergedTogether(p, q) ==
    /\ p # q /\ Merged(p) /\ Merged(q)
    /\ loc[p].group = loc[q].group
    /\ ~\E r \in Procs :
           pc[r] \in Merging /\ loc[r].group.id.val = loc[p].group.id.val

\* C31: once all the concurrent merges into one group that started from the
\* same snapshot have committed, the stored startTime is the least and the
\* stored endTime the greatest occurrenceTime of the group's items, in
\* whatever order they committed.
C31_ConcurrentMergesKeepExtremes ==
    \A p, q \in Procs :
        MergedTogether(p, q) =>
            LET g == loc[p].group.id.val
                times == {items[i].occurrence_time : i \in ItemsOf(g)}
            IN  /\ groups[g].start_time = Least(times)
                /\ groups[g].end_time = Greatest(times)

\* invocation p returned success, and no other invocation came with its
\* timestamp
Unique(p) == \A q \in Procs : (q # p /\ pc[q] # "idle") => ev[q].timestamp # ev[p].timestamp
ItemsAt(t) == {i \in 1..Len(items) : items[i].occurrence_time = t * 1000}

\* C32: of invocations with distinct timestamps, each one that returned
\* success has exactly one item with its timestamp in the store, in the
\* group whose id it returned, and each one whose store transaction failed
\* (or that failed before it) left no item.
C32_NoEventLostOrDoubled ==
    \A p \in Procs :
        Unique(p) =>
            /\ pc[p] = "done" =>
                  /\ Cardinality(ItemsAt(ev[p].timestamp)) = 1
                  /\ \A i \in ItemsAt(ev[p].timestamp) :
                        items[i].group_id = res[p].group_id.val
            /\ (pc[p] = "error" /\ loc[p].ncommit = 0) => ItemsAt(ev[p].timestamp) = {}
            /\ (pc[p] \in InFlight /\ loc[p].ncommit = 0) => ItemsAt(ev[p].timestamp) = {}

\* two invocations of one key ran their transactions from the same
\* snapshot, each before the other wrote the cache, and both returned
\* success
C32_Witness ==
    \E p, q \in Procs :
        /\ MergedTogether(p, q) /\ pc[p] = "done" /\ pc[q] = "done"
        /\ Unique(p) /\ Unique(q)
        /\ Cardinality(ItemsOf(loc[p].group.id.val)) = 3

\* the entry under the key of (c, e) names a stored group of that
\* controller and event type and carries its stored boundaries
Coherent(c, e) ==
    LET entry == cache[generateCacheKey(c, e)]
        g == SqlId(entry.value.id)
    IN  entry # NoEntry =>
            /\ g \in 1..Len(groups)
            /\ entry.value.controller_id = c /\ groups[g].controller_id = c
            /\ entry.value.event_type = e /\ groups[g].event_type = e
            /\ entry.value.start_time.ms = groups[g].start_time
            /\ entry.value.end_time.ms = groups[g].end_time

KeyOfRow(row) == <<row.controller_id, row.event_type>>

\* C34: a step of an invocation for (controllerId, eventType) takes its
\* group from that key only, leaves every group, item and cache entry of
\* another controllerId or eventType as it is, and creates groups and items
\* for its own key only; so what a key ends with does not depend on the
\* events of other keys that come in between.
C34_KeysAreIndependent ==
    [][\A p \in Procs :
         (pc[p] \in InFlight /\ pc'[p] # pc[p]) =>
            /\ (loc'[p].group # loc[p].group) =>
                  KeyOfRow(loc'[p].group) = KeyOf(p)
            /\ \A g \in 1..Len(groups) :
                  KeyOfRow(groups[g]) # KeyOf(p) => groups'[g] = groups[g]
            /\ \A g \in (Len(groups) + 1)..Len(groups') :
                  KeyOfRow(groups'[g]) = KeyOf(p)
            /\ \A i \in 1..Len(items') :
                  IF i <= Len(items) THEN items'[i] = items[i]
                  ELSE KeyOfRow(groups'[items'[i].group_id]) = KeyOf(p)
            /\ \A k \in CacheKeys :
                  k # generateCacheKey(ev[p].controller_id, ev[p].event_type)
                     => cache'[k] = cache[k]]_vars

\* C35: with invocations processed one at a time and nothing failing, no
\* two groups of one (controllerId, eventType) have [startTime, endTime]
\* windows that overlap, in whatever order the events arrive.
C35_NoOverlapOneAtATime ==
    \A g, h \in 1..Len(groups) :
        (g # h /\ KeyOfRow(groups[g]) = KeyOfRow(groups[h])) =>
            \/ groups[g].end_time < groups[h].start_time
            \/ groups[h].end_time < groups[g].start_time

\* the rows of rows that the query string q asks for
AskedIn(rows, q) ==
    {g \in 1..Len(rows) :
        /\ rows[g].event_type = q.outage_type.val
        /\ Seconds(rows[g].start_time) <= q.end_time.val
        /\ Seconds(rows[g].end_time) >= q.start_time.val
        /\ q.controller_id # Undefined => rows[g].controller_id = q.controller_id.val}
Answered == response # <<>> /\ response[1].kind = "json"

\* C36: the total of a query is the number of groups matching the filter in
\* the store state the page was read from, also when groups are created or
\* extended while the query runs.
C36_TotalCountsThePageState ==
    Answered =>
        response[1].body.pagination.total
            = Cardinality(AskedIn(response[1].pageRows, response[1].query))

\* C36 as amended: the total is the number of groups matching the filter
\* in the store state in which the count statement ran; the page is read
\* by a statement of its own, and total counts the state the page was read
\* from whenever no write to the groups committed between the two.
C36_TotalCountsTheCountState ==
    Answered =>
        /\ response[1].body.pagination.total
               = Cardinality(AskedIn(response[1].countRows, response[1].query))
        /\ IdsOf(response[1].body.data)
               \subseteq AskedIn(response[1].pageRows, response[1].query)
        /\ response[1].pageRows = response[1].countRows =>
               response[1].body.pagination.total
                   = Cardinality(AskedIn(response[1].pageRows, response[1].query))

\* a group was created between the page and the count: the page is empty
\* and the total is 1
C36_Witness ==
    /\ Answered
    /\ response[1].body.data = <<>>
    /\ response[1].body.pagination.total = 1
    /\ response[1].pageRows = <<>>
    /\ Len(response[1].countRows) = 1

\* the number of awaits processOutageEvent has before it at most
Rank(at) ==
    IF at = "getCached" THEN 4
    ELSE IF at = "findMatching" THEN 3
    ELSE IF at \in Merging \cup {"create"} THEN 2
    ELSE IF at \in Caching THEN 1
    ELSE 0

\* C37: every invocation ends, with a success result that carries one of
\* the three actions or with an error; each of its steps brings it nearer
\* to its end (no loop, no retry), and while it is under way its next call
\* can always be made, whatever the other invocations are doing.  An
\* invocation that has ended stays so and at most MaxEvents of them start:
\* each one that starts ends if and only if from some point on none is
\* under way.
C37_EveryInvocationTerminates ==
    /\ <>[](Running = {})
    /\ [][\A p \in Procs :
            (pc[p] \in InFlight /\ <<pc[p], loc[p], res[p]>>' # <<pc[p], loc[p], res[p]>>)
               => /\ Rank(pc'[p]) < Rank(pc[p])
                  /\ pc'[p] = "done" =>
                        /\ res'[p].kind = "ok"
                        /\ res'[p].action \in {"added_to_cached_group", "added_to_db_group",
                                                "created_new_group"}
                  /\ pc'[p] = "error" => res'[p].kind = "error"]_vars
    /\ [](\A p \in Procs : pc[p] \in InFlight => ENABLED Step(p))

\* two invocations of one key are under way, one about to merge and one
\* about to write the cache, after a third one ended with an error
C37_Witness ==
    \E p, q, r \in Procs :
        /\ pc[p] \in Merging /\ pc[q] \in Caching /\ KeyOf(p) = KeyOf(q)
        /\ pc[r] = "error"

====
